---------------------------- MODULE Spec2Model ----------------------------
(***************************************************************************)
(* A model of the leaderboard repository: the Count-Min Sketch              *)
(* (common/count_min_sketch.py), the streaming pipeline                     *)
(* (processors/realtime_processor.py), the batch pipeline                   *)
(* (processors/batch_processor.py) and the two queries of                   *)
(* leaderboard_service/service.py.                                          *)
(*                                                                         *)
(* Python lists are sequences: Python index i is TLA+ index i + 1.          *)
(* A file write (json.dump, one appended line) is one atomic step; the      *)
(* storage below the file API is outside the repository.                    *)
(***************************************************************************)
EXTENDS Integers, Sequences, FiniteSets, TLC

(***************************************************************************)
(* Bounds of the model.                                                     *)
(***************************************************************************)
\* CMS_WIDTH, CMS_DEPTH are 1000 and 5 in the source; the model scales them
\* down so that hash collisions happen with three keys.
CMS_WIDTH == 2
CMS_DEPTH == 2
\* Largest total count held by one sketch object of SpecSketch.
MaxTotal == 2

\* Number of raw event files that can arrive in KAFKA_DIR.
MaxEvents == 2
\* Stream runs that may crash between save_sketch and their last log line.
MaxRedo == 1
\* Largest value of int(time.time()) read by a batch run.
MaxTime == 2
\* Largest k of a query.
MaxK == 2

\* The widths and depths of the sketch objects of SpecSketch, and the counts
\* of their add calls.
Widths == CMS_WIDTH .. CMS_WIDTH + 1
Depths == CMS_DEPTH .. CMS_DEPTH + 1
Counts == {1, 2}

\* The keys (event_id values) of the model, and those the publisher is
\* called with.
Keys == {"A", "B", "E"}
PublishedKeys == {"A", "B"}
\* The keys published when the queries are asked: their cells differ in
\* every row, so their estimates can differ.
QueryKeys == {"A", "E"}

(***************************************************************************)
(* CountMinSketch (common/count_min_sketch.py)                              *)
(***************************************************************************)

\* int(sha256(str(i) + item).hexdigest(), 16) modulo 2520, for rows i = 0..5.
\* 2520 is the least common multiple of 1..10, so for every width w in 1..10
\* (SHA256Mod2520[item][i + 1] % w) is the code's int(...) % w.
SHA256Mod2520 ==
    [ A |-> << 963, 1380, 1270, 34, 643, 1729 >>,
      B |-> << 775, 2166, 1497, 57, 297, 2372 >>,
      E |-> << 2354, 2095, 1992, 1746, 951, 2113 >> ]

\* CountMinSketch.__init__: a depth x width grid of zeros.
CountMinSketch(width, depth) ==
    [ width |-> width, depth |-> depth,
      sketch |-> [i \in 1..depth |-> [j \in 1..width |-> 0]] ]

\* CountMinSketch._get_hashes: one column (0-based) per row i in range(depth).
get_hashes(self, item) ==
    [i \in 1..self.depth |-> SHA256Mod2520[item][i] % self.width]

\* The loop of add from row i (0-based) on: self.sketch[i][hashes[i]] += count.
\* An index outside the grid raises IndexError and keeps the rows already done.
RECURSIVE add_loop(_, _, _, _, _)
add_loop(grid, hashes, count, i, depth) ==
    IF i >= depth THEN [sketch |-> grid, exc |-> "none"]
    ELSE IF i + 1 > Len(grid) \/ hashes[i + 1] + 1 > Len(grid[i + 1])
         THEN [sketch |-> grid, exc |-> "IndexError"]
         ELSE add_loop([grid EXCEPT ![i + 1][hashes[i + 1] + 1] = @ + count],
                       hashes, count, i + 1, depth)

\* A faulty add: the loop stops one row early.
add_short(self, item, count) ==
    LET r == add_loop(self.sketch, get_hashes(self, item), count, 0, self.depth - 1)
    IN  [self |-> [self EXCEPT !.sketch = r.sketch], exc |-> r.exc]

\* CountMinSketch.add: the sketch after the call, and the exception raised.
add(self, item, count) ==
    LET r == add_loop(self.sketch, get_hashes(self, item), count, 0, self.depth)
    IN  [self |-> [self EXCEPT !.sketch = r.sketch], exc |-> r.exc]

\* Python's min(min_count, v), min_count being << >> for float('inf').
PyMin(min_count, v) ==
    IF min_count = << >> THEN << v >>
    ELSE IF v < min_count[1] THEN << v >> ELSE min_count

\* The loop of estimate from row i (0-based) on.
RECURSIVE estimate_loop(_, _, _, _, _)
estimate_loop(grid, hashes, min_count, i, depth) ==
    IF i >= depth THEN [ret |-> min_count, exc |-> "none"]
    ELSE IF i + 1 > Len(grid) \/ hashes[i + 1] + 1 > Len(grid[i + 1])
         THEN [ret |-> << >>, exc |-> "IndexError"]
         ELSE estimate_loop(grid, hashes,
                            PyMin(min_count, grid[i + 1][hashes[i + 1] + 1]),
                            i + 1, depth)

\* A faulty estimate: it takes the counts it reports out of the grid.
estimate_draining(self, item) ==
    LET r == estimate_loop(self.sketch, get_hashes(self, item), << >>, 0, self.depth)
    IN  [self |-> IF r.exc = "none" /\ r.ret /= << >>
                  THEN [self EXCEPT !.sketch =
                           add_loop(self.sketch, get_hashes(self, item),
                                    0 - r.ret[1], 0, self.depth).sketch]
                  ELSE self,
         ret |-> r.ret, exc |-> r.exc]

\* CountMinSketch.estimate: ret is << n >> for the integer n returned
\* (<< >> for float('inf') or when an exception is raised); self is the
\* sketch after the call (the loop reads self.sketch and assigns nothing).
estimate(self, item) ==
    LET r == estimate_loop(self.sketch, get_hashes(self, item), << >>, 0, self.depth)
    IN  [self |-> self, ret |-> r.ret, exc |-> r.exc]

\* The nested loops of merge from cell n = i * width + j on, in the code's
\* row-major order: self.sketch[i][j] += other_sketch.sketch[i][j].
RECURSIVE merge_loop(_, _, _, _, _)
merge_loop(grid, other, n, depth, width) ==
    IF n >= depth * width THEN [sketch |-> grid, exc |-> "none"]
    ELSE LET i == n \div width
             j == n % width
         IN  IF \/ i + 1 > Len(grid)  \/ j + 1 > Len(grid[i + 1])
                \/ i + 1 > Len(other) \/ j + 1 > Len(other[i + 1])
             THEN [sketch |-> grid, exc |-> "IndexError"]
             ELSE merge_loop([grid EXCEPT ![i + 1][j + 1] = @ + other[i + 1][j + 1]],
                             other, n + 1, depth, width)

\* A faulty merge: the dimension test uses "and", so one differing dimension
\* passes it.
merge_and(self, other_sketch) ==
    IF self.width /= other_sketch.width /\ self.depth /= other_sketch.depth
    THEN [self |-> self, exc |-> "ValueError"]
    ELSE LET r == merge_loop(self.sketch, other_sketch.sketch, 0, self.depth, self.width)
         IN  [self |-> [self EXCEPT !.sketch = r.sketch], exc |-> r.exc]

\* A faulty merge: the inner loop misses the last column.
merge_short(self, other_sketch) ==
    IF self.width /= other_sketch.width \/ self.depth /= other_sketch.depth
    THEN [self |-> self, exc |-> "ValueError"]
    ELSE LET r == merge_loop(self.sketch, other_sketch.sketch, 0, self.depth, self.width - 1)
         IN  [self |-> [self EXCEPT !.sketch = r.sketch], exc |-> r.exc]

\* CountMinSketch.merge: self after the call, and the exception raised.
merge(self, other_sketch) ==
    IF self.width /= other_sketch.width \/ self.depth /= other_sketch.depth
    THEN [self |-> self, exc |-> "ValueError"]
    ELSE LET r == merge_loop(self.sketch, other_sketch.sketch, 0, self.depth, self.width)
         IN  [self |-> [self EXCEPT !.sketch = r.sketch], exc |-> r.exc]

(***************************************************************************)
(* State                                                                    *)
(***************************************************************************)
VARIABLES
    \* Sketch objects in memory (SpecSketch)
    sk,                 \* sk[x]: the CountMinSketch object named x
    added,              \* added[x][k]: the exact count of key k folded into sk[x]
    ret,                \* the last call on a sketch object and its outcome
    \* Files
    kafka_events,       \* KAFKA_DIR: file identifier -> file content
    cms_state,          \* SKETCH_STATE_FILE: << >> (no file) or << the text of the file >>
    processed_log,      \* TS_DB_DIR/processed_log.txt: the lines, in order
    hdfs_storage,       \* HDFS_DIR: batch file name -> batch content
    batch_log,          \* HDFS_DIR/processed_log.txt: the lines, in order
    \* process_events, one process per runner
    pc,                 \* pc[r]: the next step of runner r
    sketch,             \* sketch[r]: the local CountMinSketch object
    processed_files,    \* processed_files[r]
    newly_processed,    \* newly_processed[r]: file names still to be logged
    exc,                \* exc[r]: the uncaught exception that ended the last run, or "none"
    \* process_batch, one process
    bpc, b_processed_files, batch_counts, b_newly_processed,
    bexc,               \* the uncaught exception that ended the last batch run, or "none"
    \* The queries
    query,              \* the query answered by the last step and its answer, or NoQuery
    \* History
    streamRedo,         \* stream runs that crashed after save_sketch, before the last log line
    batchUnacked,       \* the batch file of a killed run counts events its run did not log
    overlapped          \* a run of process_events began while another one was under way

sketchVars == << sk, added, ret >>
fileVars   == << kafka_events, cms_state, processed_log, hdfs_storage, batch_log >>
streamVars == << pc, sketch, processed_files, newly_processed, exc >>
batchVars  == << bpc, b_processed_files, batch_counts, b_newly_processed, bexc >>
queryVars  == << query >>
histVars   == << streamRedo, batchUnacked, overlapped >>
vars == << sketchVars, fileVars, streamVars, batchVars, queryVars, histVars >>

Names   == {"a", "b"}
Runners == {1, 2}

\* No query was answered by the last step.
NoQuery == [op |-> "none", k |-> 0, order |-> << >>, sketch |-> << >>,
            top_k |-> << >>, exc |-> "none"]

\* A step of the publisher or of a pipeline answers no query.
NoAnswer == query' = NoQuery

(***************************************************************************)
(* Sketch objects in memory: add, estimate and merge called in any order    *)
(***************************************************************************)
Total(bag) == bag["A"] + bag["B"] + bag["E"]

BagUnion(p, q) == [k \in Keys |-> p[k] + q[k]]

NoCall == [op |-> "none", self |-> "a", arg |-> "", count |-> 0, exc |-> "none", value |-> << >>]

\* A sketch built from scratch: one add(key, 1) per element of the multiset.
RECURSIVE build(_, _)
build(s, bag) ==
    IF \A k \in Keys : bag[k] = 0 THEN s
    ELSE LET k == CHOOSE k \in Keys : bag[k] > 0
         IN  build(add(s, k, 1).self, [bag EXCEPT ![k] = @ - 1])

BuildFromScratch(width, depth, bag) == build(CountMinSketch(width, depth), bag)

\* x.add(item, count) with a positive count
SkAdd(x, item, count) ==
    /\ Total(added[x]) + count <= MaxTotal
    /\ LET r == add(sk[x], item, count)
       IN  /\ sk' = [sk EXCEPT ![x] = r.self]
           /\ added' = [added EXCEPT ![x][item] = @ + count]
           /\ ret' = [op |-> "add", self |-> x, arg |-> item, count |-> count,
                      exc |-> r.exc, value |-> << >>]

\* x.estimate(item)
SkEstimate(x, item) ==
    /\ LET r == estimate(sk[x], item)
       IN  /\ sk' = [sk EXCEPT ![x] = r.self]
           /\ ret' = [op |-> "estimate", self |-> x, arg |-> item, count |-> 0,
                      exc |-> r.exc, value |-> r.ret]
    /\ UNCHANGED added

\* x.merge(y)
SkMerge(x, y) ==
    /\ x /= y
    /\ LET r == merge(sk[x], sk[y])
       IN  /\ r.exc = "none" => Total(added[x]) + Total(added[y]) <= MaxTotal
           /\ sk' = [sk EXCEPT ![x] = r.self]
           /\ added' = IF r.exc = "none"
                       THEN [added EXCEPT ![x] = BagUnion(added[x], added[y])]
                       ELSE added
           /\ ret' = [op |-> "merge", self |-> x, arg |-> y, count |-> 0,
                      exc |-> r.exc, value |-> << >>]

IdleStream ==
    /\ pc = [r \in Runners |-> "idle"]
    /\ sketch = [r \in Runners |-> CountMinSketch(CMS_WIDTH, CMS_DEPTH)]
    /\ processed_files = [r \in Runners |-> {}]
    /\ newly_processed = [r \in Runners |-> << >>]
    /\ exc = [r \in Runners |-> "none"]

IdleBatch ==
    /\ bpc = "idle"
    /\ b_processed_files = {}
    /\ batch_counts = << >>
    /\ b_newly_processed = << >>
    /\ bexc = "none"

NoFiles ==
    /\ kafka_events = << >>
    /\ cms_state = << >>
    /\ processed_log = << >>
    /\ hdfs_storage = << >>
    /\ batch_log = << >>

NoSketchObjects ==
    /\ sk = [x \in Names |-> CountMinSketch(CMS_WIDTH, CMS_DEPTH)]
    /\ added = [x \in Names |-> [k \in Keys |-> 0]]
    /\ ret = NoCall

InitSketch ==
    /\ \E wa \in Widths, da \in Depths, wb \in Widths, db \in Depths :
          sk = [x \in Names |-> IF x = "a" THEN CountMinSketch(wa, da)
                                           ELSE CountMinSketch(wb, db)]
    /\ added = [x \in Names |-> [k \in Keys |-> 0]]
    /\ ret = NoCall
    /\ NoFiles /\ IdleStream /\ IdleBatch
    /\ streamRedo = 0 /\ batchUnacked = FALSE /\ overlapped = FALSE
    /\ query = NoQuery

SketchAdd      == (\E x \in Names, item \in Keys, count \in Counts : SkAdd(x, item, count))
                  /\ UNCHANGED << fileVars, streamVars, batchVars, queryVars, histVars >>
SketchEstimate == (\E x \in Names, item \in Keys : SkEstimate(x, item))
                  /\ UNCHANGED << fileVars, streamVars, batchVars, queryVars, histVars >>
SketchMerge    == (\E x \in Names, y \in Names : SkMerge(x, y))
                  /\ UNCHANGED << fileVars, streamVars, batchVars, queryVars, histVars >>

\* x.add(item, count) with a count that is zero or negative
NonPositiveCounts == {0 - 1, 0}

SkAddNonPositive(x, item, count) ==
    /\ \A k \in Keys : added[x][k] >= 0
    /\ LET r == add(sk[x], item, count)
       IN  /\ sk' = [sk EXCEPT ![x] = r.self]
           /\ added' = [added EXCEPT ![x][item] = @ + count]
           /\ ret' = [op |-> "add", self |-> x, arg |-> item, count |-> count,
                      exc |-> r.exc, value |-> << >>]

SketchAddNonPositive ==
    (\E x \in Names, item \in Keys, count \in NonPositiveCounts : SkAddNonPositive(x, item, count))
    /\ UNCHANGED << fileVars, streamVars, batchVars, queryVars, histVars >>

\* add called with any integer count, and estimate.
NextAnyCount ==
    \/ SketchAdd
    \/ SketchAddNonPositive
    \/ SketchEstimate

InitAnyCount ==
    /\ NoSketchObjects
    /\ NoFiles /\ IdleStream /\ IdleBatch
    /\ streamRedo = 0 /\ batchUnacked = FALSE /\ overlapped = FALSE
    /\ query = NoQuery

SpecAnyCount == InitAnyCount /\ [][NextAnyCount]_vars

NextSketch ==
    \/ SketchAdd
    \/ SketchEstimate
    \/ SketchMerge

SpecSketch == InitSketch /\ [][NextSketch]_vars

(***************************************************************************)
(* Raw event files (event_publisher/publisher.py and foreign producers)     *)
(***************************************************************************)
\* A file of KAFKA_DIR is named <message_id>.json; the model names it by an
\* integer, and sorted(os.listdir(KAFKA_DIR)) is the increasing order.  Every
\* name ends with '.json', so the endswith test of the processors passes.
FileIds == 1..MaxEvents

\* The content of a file: text that is not JSON, a JSON array, or a JSON
\* object with the fields named in has.
JsonObject(has, event_id) == [kind |-> "object", has |-> has, event_id |-> event_id]
NotJson   == [kind |-> "text",  has |-> {}, event_id |-> ""]
JsonArray == [kind |-> "array", has |-> {}, event_id |-> ""]

\* The record publish_event writes (event_type and timestamp are never read).
PublishedRecord(event_id) == JsonObject({"message_id", "event_id"}, event_id)

\* Records of other producers: unparsable text, a JSON array, an object
\* without event_id, an object without message_id.
ForeignRecords ==
    { NotJson, JsonArray, JsonObject({"message_id"}, ""), JsonObject({"event_id"}, "A") }

\* publish_event(event_id, event_type): a new file under a fresh uuid4 name.
publish_event(id, event_id) ==
    /\ id \notin DOMAIN kafka_events
    /\ kafka_events' = kafka_events @@ (id :> PublishedRecord(event_id))
    /\ UNCHANGED << cms_state, processed_log, hdfs_storage, batch_log >>

\* A file written to KAFKA_DIR by another producer.
ForeignWrite(id, rec) ==
    /\ id \notin DOMAIN kafka_events
    /\ kafka_events' = kafka_events @@ (id :> rec)
    /\ UNCHANGED << cms_state, processed_log, hdfs_storage, batch_log >>

Range(seq) == {seq[i] : i \in 1..Len(seq)}

\* sorted(os.listdir(KAFKA_DIR)) without the names in processed, from name n on.
RECURSIVE SortedUnseen(_, _, _)
SortedUnseen(files, processed, n) ==
    IF n > MaxEvents THEN << >>
    ELSE IF n \in files /\ n \notin processed
         THEN << n >> \o SortedUnseen(files, processed, n + 1)
         ELSE SortedUnseen(files, processed, n + 1)

\* The exception raised by json.load(f) followed by event['event_id'].
ReadException(rec) ==
    IF rec.kind = "text" THEN "JSONDecodeError"
    ELSE IF rec.kind = "array" THEN "TypeError"
    ELSE IF "event_id" \notin rec.has THEN "KeyError"
    ELSE "none"

(***************************************************************************)
(* process_events (processors/realtime_processor.py)                        *)
(***************************************************************************)
\* The body of the for loop of process_events over the names in todo.
\* JSONDecodeError and KeyError are caught and the loop goes on; any other
\* exception leaves the loop (and process_events).  The KeyError of a missing
\* message_id is raised by the print, after the add and the append.
RECURSIVE events_loop(_, _, _, _)
events_loop(todo, files, s, newly) ==
    IF todo = << >> THEN [sketch |-> s, newly_processed |-> newly, exc |-> "none"]
    ELSE LET filename == Head(todo)
             e == ReadException(files[filename])
         IN  IF e \in {"JSONDecodeError", "KeyError"}
             THEN events_loop(Tail(todo), files, s, newly)
             ELSE IF e /= "none"
             THEN [sketch |-> s, newly_processed |-> newly, exc |-> e]
             ELSE LET a == add(s, files[filename].event_id, 1)
                  IN  IF a.exc /= "none"
                      THEN [sketch |-> a.self, newly_processed |-> newly, exc |-> a.exc]
                      ELSE events_loop(Tail(todo), files, a.self, Append(newly, filename))

\* The end of a run of runner r: its local objects are gone.
EndRun(r) ==
    /\ pc' = [pc EXCEPT ![r] = "idle"]
    /\ sketch' = [sketch EXCEPT ![r] = CountMinSketch(CMS_WIDTH, CMS_DEPTH)]
    /\ processed_files' = [processed_files EXCEPT ![r] = {}]
    /\ newly_processed' = [newly_processed EXCEPT ![r] = << >>]

\* The text of the state file, as its JSON tokens: brackets, commas and
\* integers (Python's int is unbounded and json writes it in full).
Tok(t)    == [t |-> t, n |-> 0]
IntTok(n) == [t |-> "int", n |-> n]

\* The tokens of a list of integers, from element i (1-based) on.
RECURSIVE dump_ints(_, _)
dump_ints(row, i) ==
    IF i > Len(row) THEN << >>
    ELSE (IF i > 1 THEN << Tok(",") >> ELSE << >>)
         \o << IntTok(row[i]) >> \o dump_ints(row, i + 1)

\* The tokens of the rows of a grid, from row i (1-based) on.
RECURSIVE dump_rows(_, _)
dump_rows(grid, i) ==
    IF i > Len(grid) THEN << >>
    ELSE (IF i > 1 THEN << Tok(",") >> ELSE << >>)
         \o << Tok("[") >> \o dump_ints(grid[i], 1) \o << Tok("]") >>
         \o dump_rows(grid, i + 1)

\* A faulty json.dump: the last element of every row is not written.
RECURSIVE dump_rows_short(_, _)
dump_rows_short(grid, i) ==
    IF i > Len(grid) THEN << >>
    ELSE (IF i > 1 THEN << Tok(",") >> ELSE << >>)
         \o << Tok("[") >> \o dump_ints(SubSeq(grid[i], 1, Len(grid[i]) - 1), 1)
         \o << Tok("]") >> \o dump_rows_short(grid, i + 1)

json_dump_short(grid) == << Tok("[") >> \o dump_rows_short(grid, 1) \o << Tok("]") >>

\* json.dump(sketch.sketch, f): the text written for a list of lists of int.
json_dump(grid) == << Tok("[") >> \o dump_rows(grid, 1) \o << Tok("]") >>

\* The integers of a list read from token i on, up to its closing bracket.
RECURSIVE load_ints(_, _, _)
load_ints(text, i, acc) ==
    IF text[i].t = "]" THEN [value |-> acc, next |-> i + 1]
    ELSE IF text[i].t = "," THEN load_ints(text, i + 1, acc)
    ELSE load_ints(text, i + 1, Append(acc, text[i].n))

\* The rows of a list of lists read from token i on.
RECURSIVE load_rows(_, _, _)
load_rows(text, i, acc) ==
    IF text[i].t = "]" THEN acc
    ELSE IF text[i].t = "," THEN load_rows(text, i + 1, acc)
    ELSE LET row == load_ints(text, i + 1, << >>)
         IN  load_rows(text, row.next, Append(acc, row.value))

\* json.load(f) of a state file: the list of lists the text denotes.
json_load(text) == load_rows(text, 2, << >>)

\* A faulty load_sketch: the state file is never read.
load_sketch_fresh(state) == CountMinSketch(CMS_WIDTH, CMS_DEPTH)

\* load_sketch(): a new sketch whose grid is replaced by the state file's,
\* without a look at its shape.
load_sketch(state) ==
    IF state = << >> THEN CountMinSketch(CMS_WIDTH, CMS_DEPTH)
    ELSE [CountMinSketch(CMS_WIDTH, CMS_DEPTH) EXCEPT !.sketch = json_load(state[1])]

\* A faulty get_processed_files: the log is never read.
get_processed_files_none(log) == {}

\* get_processed_files(): the lines of the log, as a set.
get_processed_files(log) == Range(log)

\* A faulty end of the loop: the sketch is saved whether or not an event was
\* processed.
after_loop_always_save(r, res) ==
    /\ exc' = [exc EXCEPT ![r] = res.exc]
    /\ IF res.exc /= "none" THEN EndRun(r)
       ELSE /\ sketch' = [sketch EXCEPT ![r] = res.sketch]
            /\ newly_processed' = [newly_processed EXCEPT ![r] = res.newly_processed]
            /\ pc' = [pc EXCEPT ![r] = "save_sketch"]
            /\ UNCHANGED processed_files

\* What follows the for loop, res being its outcome: an exception that is not
\* caught ends the run; "if events_processed > 0" (events_processed is
\* len(newly_processed) at every point of the loop) goes on to save_sketch;
\* otherwise the run ends with nothing written.
after_loop(r, res) ==
    /\ exc' = [exc EXCEPT ![r] = res.exc]
    /\ IF res.exc /= "none" THEN EndRun(r)
       ELSE IF Len(res.newly_processed) > 0
       THEN /\ sketch' = [sketch EXCEPT ![r] = res.sketch]
            /\ newly_processed' = [newly_processed EXCEPT ![r] = res.newly_processed]
            /\ pc' = [pc EXCEPT ![r] = "save_sketch"]
            /\ UNCHANGED processed_files
       ELSE EndRun(r)

\* process_events() up to the end of its for loop: load_sketch(),
\* get_processed_files() and the loop over sorted(os.listdir(KAFKA_DIR)).  The
\* two files read first are written by process_events alone, so under
\* serialized runs the three reads are one step.
process_events(r) ==
    /\ pc[r] = "idle"
    /\ LET loaded    == load_sketch(cms_state)
           processed == get_processed_files(processed_log)
           todo      == SortedUnseen(DOMAIN kafka_events, processed, 1)
       IN  after_loop(r, events_loop(todo, kafka_events, loaded, << >>))
    /\ UNCHANGED << fileVars, histVars >>

\* A faulty save: the run goes on to the log without writing the state file.
save_sketch_skipped(r) ==
    /\ pc[r] = "save_sketch"
    /\ pc' = [pc EXCEPT ![r] = "log_processed_file"]
    /\ UNCHANGED << sketch, processed_files, newly_processed, exc, fileVars, histVars >>

\* save_sketch(sketch): json.dump of the grid.
save_sketch(r) ==
    /\ pc[r] = "save_sketch"
    /\ cms_state' = << json_dump(sketch[r].sketch) >>
    /\ pc' = [pc EXCEPT ![r] = "log_processed_file"]
    /\ UNCHANGED << sketch, processed_files, newly_processed, exc,
                    kafka_events, processed_log, hdfs_storage, batch_log, histVars >>

\* A faulty log_processed_file: PROCESSED_LOG_FILE is the batch pipeline's.
log_processed_file_shared(r) ==
    /\ pc[r] = "log_processed_file"
    /\ batch_log' = Append(batch_log, Head(newly_processed[r]))
    /\ IF Tail(newly_processed[r]) = << >>
       THEN EndRun(r)
       ELSE /\ newly_processed' = [newly_processed EXCEPT ![r] = Tail(@)]
            /\ UNCHANGED << pc, sketch, processed_files >>
    /\ UNCHANGED << exc, kafka_events, cms_state, hdfs_storage, processed_log, histVars >>

\* log_processed_file(filename) for the next name of newly_processed.
log_processed_file(r) ==
    /\ pc[r] = "log_processed_file"
    /\ processed_log' = Append(processed_log, Head(newly_processed[r]))
    /\ IF Tail(newly_processed[r]) = << >>
       THEN EndRun(r)
       ELSE /\ newly_processed' = [newly_processed EXCEPT ![r] = Tail(@)]
            /\ UNCHANGED << pc, sketch, processed_files >>
    /\ UNCHANGED << exc, kafka_events, cms_state, hdfs_storage, batch_log, histVars >>

\* The process of runner r is killed.
StreamCrash(r) ==
    /\ pc[r] /= "idle"
    /\ pc[r] = "log_processed_file" => streamRedo < MaxRedo
    /\ streamRedo' = IF pc[r] = "log_processed_file" THEN streamRedo + 1 ELSE streamRedo
    /\ EndRun(r)
    /\ UNCHANGED << exc, fileVars, batchUnacked, overlapped >>

\* process_events() step by step, for runs that overlap: sketch =
\* load_sketch(), then processed_files = get_processed_files(), then the for
\* loop over sorted(os.listdir(KAFKA_DIR)); save_sketch and
\* log_processed_file follow as above.
begin_load_sketch(r) ==
    /\ pc[r] = "idle"
    /\ sketch' = [sketch EXCEPT ![r] = load_sketch(cms_state)]
    /\ pc' = [pc EXCEPT ![r] = "get_processed_files"]
    /\ overlapped' = (overlapped \/ \E other \in Runners \ {r} : pc[other] /= "idle")
    /\ UNCHANGED << processed_files, newly_processed, exc, fileVars, streamRedo, batchUnacked >>

read_processed_files(r) ==
    /\ pc[r] = "get_processed_files"
    /\ processed_files' = [processed_files EXCEPT ![r] = get_processed_files(processed_log)]
    /\ pc' = [pc EXCEPT ![r] = "scan"]
    /\ UNCHANGED << sketch, newly_processed, exc, fileVars, histVars >>

scan_events(r) ==
    /\ pc[r] = "scan"
    /\ LET todo == SortedUnseen(DOMAIN kafka_events, processed_files[r], 1)
       IN  after_loop(r, events_loop(todo, kafka_events, sketch[r], << >>))
    /\ UNCHANGED << fileVars, histVars >>

(***************************************************************************)
(* process_batch (processors/batch_processor.py)                            *)
(***************************************************************************)
\* batch_counts[event_id] += 1 on a Counter kept as the list of its items.
RECURSIVE CounterInc(_, _)
CounterInc(items, event_id) ==
    IF items = << >> THEN << [event_id |-> event_id, count |-> 1] >>
    ELSE IF Head(items).event_id = event_id
         THEN << [Head(items) EXCEPT !.count = @ + 1] >> \o Tail(items)
         ELSE << Head(items) >> \o CounterInc(Tail(items), event_id)

\* The body of the for loop of process_batch over the names in todo.
RECURSIVE batch_loop(_, _, _, _)
batch_loop(todo, files, counts, newly) ==
    IF todo = << >> THEN [batch_counts |-> counts, newly_processed |-> newly, exc |-> "none"]
    ELSE LET filename == Head(todo)
             e == ReadException(files[filename])
         IN  IF e \in {"JSONDecodeError", "KeyError"}
             THEN batch_loop(Tail(todo), files, counts, newly)
             ELSE IF e /= "none"
             THEN [batch_counts |-> counts, newly_processed |-> newly, exc |-> e]
             ELSE batch_loop(Tail(todo), files,
                             CounterInc(counts, files[filename].event_id),
                             Append(newly, filename))

\* f'batch_{{batch_timestamp}}.json': the doubled braces are literal braces,
\* so the name does not hold the timestamp.
output_filename(batch_timestamp) == "batch_{batch_timestamp}.json"

EndBatch ==
    /\ bpc' = "idle"
    /\ b_processed_files' = {}
    /\ batch_counts' = << >>
    /\ b_newly_processed' = << >>

\* get_processed_files() of batch_processor.py
batch_get_processed_files(log) == Range(log)

\* A faulty end of the loop: a batch is written even when nothing is new.
batch_after_loop_always_write(res) ==
    /\ bexc' = res.exc
    /\ IF res.exc /= "none" THEN EndBatch
       ELSE /\ batch_counts' = res.batch_counts
            /\ b_newly_processed' = res.newly_processed
            /\ bpc' = "write"
            /\ UNCHANGED b_processed_files

\* What follows the for loop of process_batch: an exception that is not
\* caught ends the run; "if newly_processed" goes on to the batch write;
\* otherwise the run ends with nothing written.
batch_after_loop(res) ==
    /\ bexc' = res.exc
    /\ IF res.exc /= "none" THEN EndBatch
       ELSE IF res.newly_processed /= << >>
       THEN /\ batch_counts' = res.batch_counts
            /\ b_newly_processed' = res.newly_processed
            /\ bpc' = "write"
            /\ UNCHANGED b_processed_files
       ELSE EndBatch

\* process_batch() up to the end of its for loop: get_processed_files() and
\* the loop over sorted(os.listdir(KAFKA_DIR)).
process_batch ==
    /\ bpc = "idle"
    /\ LET processed == batch_get_processed_files(batch_log)
           todo      == SortedUnseen(DOMAIN kafka_events, processed, 1)
       IN  batch_after_loop(batch_loop(todo, kafka_events, << >>, << >>))
    /\ UNCHANGED << fileVars, histVars >>

\* json.dump(output_data) into output_filename, opened with 'w'.
batch_write(batch_timestamp) ==
    /\ bpc = "write"
    /\ LET name == output_filename(batch_timestamp)
       IN  hdfs_storage' = [f \in DOMAIN hdfs_storage \cup {name} |->
                               IF f = name THEN batch_counts ELSE hdfs_storage[f]]
    /\ bpc' = "log"
    /\ UNCHANGED << b_processed_files, batch_counts, b_newly_processed, bexc,
                    kafka_events, cms_state, processed_log, batch_log, histVars >>

\* log_processed_file(filename) of batch_processor.py, for the next name.
batch_log_processed_file ==
    /\ bpc = "log"
    /\ batch_log' = Append(batch_log, Head(b_newly_processed))
    /\ IF Tail(b_newly_processed) = << >>
       THEN EndBatch /\ batchUnacked' = FALSE
       ELSE /\ b_newly_processed' = Tail(b_newly_processed)
            /\ UNCHANGED << bpc, b_processed_files, batch_counts, batchUnacked >>
    /\ UNCHANGED << bexc, kafka_events, cms_state, processed_log, hdfs_storage,
                    streamRedo, overlapped >>

\* The batch process is killed.
BatchCrash ==
    /\ bpc /= "idle"
    /\ batchUnacked' = (batchUnacked \/ bpc = "log")
    /\ EndBatch
    /\ UNCHANGED << bexc, fileVars, streamRedo, overlapped >>

(***************************************************************************)
(* The two pipelines                                                        *)
(***************************************************************************)
Init ==
    /\ NoSketchObjects
    /\ NoFiles /\ IdleStream /\ IdleBatch
    /\ streamRedo = 0 /\ batchUnacked = FALSE /\ overlapped = FALSE
    /\ query = NoQuery

\* One step of the surroundings or of a pipeline; the sketch objects of
\* SpecSketch take no part.
Publish      == (\E id \in FileIds, event_id \in PublishedKeys : publish_event(id, event_id))
                /\ UNCHANGED << streamVars, batchVars, histVars, sketchVars >> /\ NoAnswer
Foreign      == (\E id \in FileIds, rec \in ForeignRecords : ForeignWrite(id, rec))
                /\ UNCHANGED << streamVars, batchVars, histVars, sketchVars >> /\ NoAnswer
ProcessEvents(r)     == process_events(r)      /\ UNCHANGED << batchVars, sketchVars >> /\ NoAnswer
SaveSketch(r)        == save_sketch(r)         /\ UNCHANGED << batchVars, sketchVars >> /\ NoAnswer
LogProcessedFile(r)  == log_processed_file(r)  /\ UNCHANGED << batchVars, sketchVars >> /\ NoAnswer
CrashStream(r)       == StreamCrash(r)         /\ UNCHANGED << batchVars, sketchVars >> /\ NoAnswer
ProcessBatch         == process_batch            /\ UNCHANGED << streamVars, sketchVars >> /\ NoAnswer
BatchWrite           == (\E batch_timestamp \in 1..MaxTime : batch_write(batch_timestamp))
                        /\ UNCHANGED << streamVars, sketchVars >> /\ NoAnswer
BatchLogProcessedFile == batch_log_processed_file /\ UNCHANGED << streamVars, sketchVars >> /\ NoAnswer
CrashBatch           == BatchCrash               /\ UNCHANGED << streamVars, sketchVars >> /\ NoAnswer

\* The repository's programs: the publisher, serialized runs of
\* process_events (runner 1) and, beside them, serialized runs of
\* process_batch.
NextNoCrash ==
    \/ Publish
    \/ ProcessEvents(1)
    \/ SaveSketch(1)
    \/ LogProcessedFile(1)
    \/ ProcessBatch
    \/ BatchWrite
    \/ BatchLogProcessedFile

Next ==
    \/ NextNoCrash
    \/ CrashStream(1)
    \/ CrashBatch

\* Serialized runs of each pipeline, with crashes.
Spec == Init /\ [][Next]_vars

\* Serialized runs of each pipeline, no crash.
SpecNoCrash == Init /\ [][NextNoCrash]_vars

\* The programs with the files of other producers in KAFKA_DIR.
NextForeign ==
    \/ Next
    \/ Foreign

SpecForeign == Init /\ [][NextForeign]_vars

\* The same without crashes.
NextForeignNoCrash ==
    \/ NextNoCrash
    \/ Foreign

SpecForeignNoCrash == Init /\ [][NextForeignNoCrash]_vars

\* Runs of process_events that overlap: every runner takes its steps, or is
\* killed, at any moment.
BeginLoadSketch    == (\E r \in Runners : begin_load_sketch(r))
                      /\ UNCHANGED << batchVars, sketchVars >> /\ NoAnswer
ReadProcessedFiles == (\E r \in Runners : read_processed_files(r))
                      /\ UNCHANGED << batchVars, sketchVars >> /\ NoAnswer
ScanEvents         == (\E r \in Runners : scan_events(r))
                      /\ UNCHANGED << batchVars, sketchVars >> /\ NoAnswer
SaveSketchAny      == \E r \in Runners : SaveSketch(r)
LogProcessedFileAny == \E r \in Runners : LogProcessedFile(r)
CrashStreamAny     == \E r \in Runners : CrashStream(r)

\* The publisher called with one key: what overlapping runs do to the count
\* of a key shows with a single key.
PublishOne == (\E id \in FileIds : publish_event(id, "A"))
              /\ UNCHANGED << streamVars, batchVars, histVars, sketchVars >> /\ NoAnswer

NextOverlap ==
    \/ PublishOne
    \/ BeginLoadSketch
    \/ ReadProcessedFiles
    \/ ScanEvents
    \/ SaveSketchAny
    \/ LogProcessedFileAny
    \/ CrashStreamAny

SpecOverlap == Init /\ [][NextOverlap]_vars

\* A state file left by a producer configured with another width or depth:
\* file 1 (key "A") was folded into a width x depth sketch, saved and logged.
InitLoad ==
    /\ NoSketchObjects
    /\ kafka_events = (1 :> PublishedRecord("A"))
    /\ \E width \in CMS_WIDTH - 1 .. CMS_WIDTH + 1, depth \in CMS_DEPTH - 1 .. CMS_DEPTH + 1 :
          cms_state = << json_dump(add(CountMinSketch(width, depth), "A", 1).self.sketch) >>
    /\ processed_log = << 1 >>
    /\ hdfs_storage = << >>
    /\ batch_log = << >>
    /\ IdleStream /\ IdleBatch
    /\ streamRedo = 0 /\ batchUnacked = FALSE /\ overlapped = FALSE
    /\ query = NoQuery

SpecLoad == InitLoad /\ [][Next]_vars

(***************************************************************************)
(* The queries (leaderboard_service/service.py)                             *)
(***************************************************************************)
\* get_unique_event_ids(): the event_id of every file named in one of the two
\* logs that exists, parses and holds an event_id.
get_unique_event_ids ==
    { kafka_events[f].event_id :
        f \in { g \in (Range(processed_log) \cup Range(batch_log)) \cap DOMAIN kafka_events :
                  kafka_events[g].kind = "object" /\ "event_id" \in kafka_events[g].has } }

\* The estimates list of get_approximate_top_k, as a function of the event_id:
\* the sketch is loaded as in load_sketch (service.py holds the same lines and
\* the same CMS_WIDTH, CMS_DEPTH) and asked for every candidate; the list is
\* empty without a state file.
estimates ==
    [event_id \in (IF cms_state = << >> THEN {} ELSE get_unique_event_ids) |->
        estimate(load_sketch(cms_state), event_id)]

\* The sum of item['count'] over the items of one batch with this event_id.
RECURSIVE SumItems(_, _)
SumItems(batch_data, event_id) ==
    IF batch_data = << >> THEN 0
    ELSE (IF Head(batch_data).event_id = event_id THEN Head(batch_data).count ELSE 0)
         + SumItems(Tail(batch_data), event_id)

RECURSIVE SumFiles(_, _)
SumFiles(names, event_id) ==
    IF names = {} THEN 0
    ELSE LET filename == CHOOSE f \in names : TRUE
         IN  SumItems(hdfs_storage[filename], event_id) + SumFiles(names \ {filename}, event_id)

\* total_counts[event_id] of get_exact_top_k: the sum over every batch file of
\* HDFS_DIR (every name written by process_batch starts with 'batch_' and
\* ends with '.json'); a Counter gives 0 for a key it does not hold.
total_counts(event_id) == SumFiles(DOMAIN hdfs_storage, event_id)

\* The lists a set can be listed as (list(event_ids) of a set, os.listdir).
Orders(S) ==
    { order \in [1..Cardinality(S) -> S] :
        \A i, j \in 1..Cardinality(S) : i /= j => order[i] /= order[j] }

\* The for loop of get_approximate_top_k over event_ids: one
\* sketch.estimate(event_id) per candidate, appended to estimates.
RECURSIVE estimates_loop(_, _, _)
estimates_loop(s, event_ids, acc) ==
    IF event_ids = << >> THEN [sketch |-> s, estimates |-> acc, exc |-> "none"]
    ELSE LET e == estimate(s, Head(event_ids))
         IN  IF e.exc /= "none"
             THEN [sketch |-> e.self, estimates |-> acc, exc |-> e.exc]
             ELSE estimates_loop(e.self, Tail(event_ids),
                                 Append(acc, [event_id |-> Head(event_ids),
                                              count |-> e.ret[1]]))

\* A faulty place of x in a list sorted by decreasing count: before the
\* items of equal count.
RECURSIVE insort_before(_, _)
insort_before(sorted, x) ==
    IF sorted = << >> THEN << x >>
    ELSE IF Head(sorted).count > x.count
         THEN << Head(sorted) >> \o insort_before(Tail(sorted), x)
         ELSE << x >> \o sorted

\* The place of x in a list sorted by decreasing count: after the items of
\* equal count (sorted(..., reverse=True) is stable).
RECURSIVE insort(_, _)
insort(sorted, x) ==
    IF sorted = << >> THEN << x >>
    ELSE IF Head(sorted).count >= x.count
         THEN << Head(sorted) >> \o insort(Tail(sorted), x)
         ELSE << x >> \o sorted

\* sorted(items, key=count, reverse=True), items taken from index i on.
RECURSIVE sorted_reverse(_, _, _)
sorted_reverse(items, i, acc) ==
    IF i > Len(items) THEN acc
    ELSE sorted_reverse(items, i + 1, insort(acc, items[i]))

\* heapq.nlargest(k, items, key=count), which the library defines as
\* sorted(items, key=key, reverse=True)[:k].
nlargest(k, items) ==
    LET all == sorted_reverse(items, 1, << >>)
    IN  IF k <= 0 THEN << >>
        ELSE SubSeq(all, 1, IF k < Len(all) THEN k ELSE Len(all))

Answer(op, k, order, s, top_k, e) ==
    [op |-> op, k |-> k, order |-> order, sketch |-> s, top_k |-> top_k, exc |-> e]

\* A faulty get_approximate_top_k: the state file is opened without the
\* os.path.exists test.
get_approximate_top_k_unchecked(k, event_ids) ==
    IF cms_state = << >>
    THEN Answer("approximate", k, << >>, << >>, << >>, "FileNotFoundError")
    ELSE LET loaded == load_sketch(cms_state)
             r == estimates_loop(loaded, event_ids, << >>)
         IN  Answer("approximate", k, event_ids, << r.sketch >>,
                    IF r.exc = "none" THEN nlargest(k, r.estimates) ELSE << >>,
                    r.exc)

\* get_approximate_top_k(k), event_ids being the list get_unique_event_ids()
\* returns: [] without a state file, [] without candidates, else the k
\* largest estimates.  The answer keeps the local sketch as the loop left it.
get_approximate_top_k(k, event_ids) ==
    IF cms_state = << >> THEN Answer("approximate", k, << >>, << >>, << >>, "none")
    ELSE LET loaded == load_sketch(cms_state)
         IN  IF event_ids = << >>
             THEN Answer("approximate", k, << >>, << loaded >>, << >>, "none")
             ELSE LET r == estimates_loop(loaded, event_ids, << >>)
                  IN  Answer("approximate", k, event_ids, << r.sketch >>,
                             IF r.exc = "none" THEN nlargest(k, r.estimates) ELSE << >>,
                             r.exc)

\* A faulty total_counts[event_id] = count: the count of a later batch
\* replaces the sum.
RECURSIVE CounterAdd_assign(_, _, _)
CounterAdd_assign(items, event_id, count) ==
    IF items = << >> THEN << [event_id |-> event_id, count |-> count] >>
    ELSE IF Head(items).event_id = event_id
         THEN << [Head(items) EXCEPT !.count = count] >> \o Tail(items)
         ELSE << Head(items) >> \o CounterAdd_assign(Tail(items), event_id, count)

\* total_counts[event_id] += count on a Counter kept as the list of its
\* items, in the order of first insertion.
RECURSIVE CounterAdd(_, _, _)
CounterAdd(items, event_id, count) ==
    IF items = << >> THEN << [event_id |-> event_id, count |-> count] >>
    ELSE IF Head(items).event_id = event_id
         THEN << [Head(items) EXCEPT !.count = @ + count] >> \o Tail(items)
         ELSE << Head(items) >> \o CounterAdd(Tail(items), event_id, count)

\* The inner loop of get_exact_top_k over the items of one batch file.
RECURSIVE counts_of_batch(_, _)
counts_of_batch(batch_data, counts) ==
    IF batch_data = << >> THEN counts
    ELSE counts_of_batch(Tail(batch_data),
                         CounterAdd(counts, Head(batch_data).event_id, Head(batch_data).count))

\* The outer loop of get_exact_top_k over the batch files, in the order
\* os.listdir gives them.
RECURSIVE counts_of_files(_, _)
counts_of_files(filenames, counts) ==
    IF filenames = << >> THEN counts
    ELSE counts_of_files(Tail(filenames),
                         counts_of_batch(hdfs_storage[Head(filenames)], counts))

\* get_exact_top_k(k), filenames being os.listdir(HDFS_DIR) without the
\* ledger: [] without a batch file, else total_counts.most_common(k), which
\* is heapq.nlargest(k, total_counts.items(), key=count).  (Counter is the
\* name service.py imports under __main__, the way the program is run.)
get_exact_top_k(k, filenames) ==
    IF filenames = << >> THEN Answer("exact", k, << >>, << >>, << >>, "none")
    ELSE Answer("exact", k, filenames, << >>,
                nlargest(k, counts_of_files(filenames, << >>)), "none")

\* The two queries, asked at any moment with any k; they write no file.
GetApproximateTopK ==
    /\ \E k \in 1..MaxK, event_ids \in Orders(get_unique_event_ids) :
          query' = get_approximate_top_k(k, event_ids)
    /\ UNCHANGED << sketchVars, fileVars, streamVars, batchVars, histVars >>

GetExactTopK ==
    /\ \E k \in 1..MaxK, filenames \in Orders(DOMAIN hdfs_storage) :
          query' = get_exact_top_k(k, filenames)
    /\ UNCHANGED << sketchVars, fileVars, streamVars, batchVars, histVars >>

\* The publisher called with the keys of QueryKeys.
PublishAny == (\E id \in FileIds, event_id \in QueryKeys : publish_event(id, event_id))
              /\ UNCHANGED << streamVars, batchVars, histVars, sketchVars >> /\ NoAnswer

\* The pipelines in crash-free serialized runs, and the two queries.
NextQuery ==
    \/ PublishAny
    \/ ProcessEvents(1)
    \/ SaveSketch(1)
    \/ LogProcessedFile(1)
    \/ ProcessBatch
    \/ BatchWrite
    \/ BatchLogProcessedFile
    \/ GetApproximateTopK
    \/ GetExactTopK

SpecQuery == Init /\ [][NextQuery]_vars

\* get_exact_top_k reads whatever batch files HDFS_DIR holds: one or two
\* files, each the items of a Counter (distinct keys, positive counts).
BatchNames == {"batch_1.json", "batch_2.json"}

BatchItems == { [event_id |-> event_id, count |-> count] : event_id \in Keys, count \in Counts }

BatchContents ==
    { << x >> : x \in BatchItems }
    \cup { pair \in { << x, y >> : x \in BatchItems, y \in BatchItems } :
               pair[1].event_id /= pair[2].event_id }

InitExact ==
    /\ NoSketchObjects /\ IdleStream /\ IdleBatch
    /\ kafka_events = << >> /\ cms_state = << >>
    /\ processed_log = << >> /\ batch_log = << >>
    /\ \E names \in SUBSET BatchNames : hdfs_storage \in [names -> BatchContents]
    /\ streamRedo = 0 /\ batchUnacked = FALSE /\ overlapped = FALSE
    /\ query = NoQuery

NextExact == GetExactTopK

SpecExact == InitExact /\ [][NextExact]_vars

(***************************************************************************)
(* Claims about the pipelines                                               *)
(***************************************************************************)
\* The number of files named in a log that hold this event_id.
LedgerCount(log, event_id) ==
    Cardinality({ f \in Range(log) \cap DOMAIN kafka_events :
                    /\ kafka_events[f].kind = "object"
                    /\ "event_id" \in kafka_events[f].has
                    /\ kafka_events[f].event_id = event_id })

SameCoverage == Range(processed_log) = Range(batch_log)

\* Every estimate the approximate query reports is at least the total the
\* exact query computes for the same key.
EstimateAtLeastTotal ==
    \A event_id \in DOMAIN estimates :
        /\ estimates[event_id].exc = "none"
        /\ estimates[event_id].ret[1] >= total_counts(event_id)

\* Every key the exact query reports has an estimate in the approximate one.
EveryTotalEstimated ==
    \A event_id \in Keys : total_counts(event_id) > 0 => event_id \in DOMAIN estimates

\* C2 as claimed (cross-path dominance): in every reachable state in which
\* the two ledgers cover the same raw events, for every key the estimate of
\* get_approximate_top_k is at least the total of get_exact_top_k.
C2_CrossPathDominance == SameCoverage => EstimateAtLeastTotal

\* C2 as amended: the same, in the states in which no stored batch counts an
\* event that its run has not yet appended to the batch ledger (no batch run
\* is between its batch write and its last ledger line, and none was killed
\* there since the last completed batch run); in these states every key with
\* an exact total has an estimate, too.
C2_DominanceWhenAcked ==
    (SameCoverage /\ bpc /= "log" /\ ~batchUnacked)
        => (EstimateAtLeastTotal /\ EveryTotalEstimated)

\* C2 case: both ledgers cover the same two or more events, and the estimate
\* of some key is strictly above its exact total.
C2_Witness ==
    /\ SameCoverage /\ bpc = "idle" /\ ~batchUnacked /\ Len(batch_log) >= 2
    /\ \E event_id \in Keys :
          /\ total_counts(event_id) > 0
          /\ estimates[event_id].ret[1] > total_counts(event_id)

C4_ExactTotals ==
    bpc = "idle" =>
        \A event_id \in Keys : total_counts(event_id) = LedgerCount(batch_log, event_id)

\* C5 (append-only batches): the batch write of a run adds one batch record
\* under a name no stored batch has, and leaves every stored batch as it was.
C5_AppendOnly ==
    [][ (bpc = "write" /\ bpc' = "log") =>
          /\ Cardinality(DOMAIN hdfs_storage') = Cardinality(DOMAIN hdfs_storage) + 1
          /\ \A f \in DOMAIN hdfs_storage :
                f \in DOMAIN hdfs_storage' /\ hdfs_storage'[f] = hdfs_storage[f]
      ]_vars

AllLogged(log) == DOMAIN kafka_events \subseteq Range(log)

\* C6 (idempotent replay): when every available raw event is in the ledger of
\* a pipeline, no step starts a run of that pipeline that goes on to write,
\* and the pipeline's state (sketch file or batches) and ledger stay as they
\* are.
C6_IdempotentReplay ==
    [][ /\ (pc[1] = "idle" /\ AllLogged(processed_log)) =>
             (pc'[1] = "idle" /\ cms_state' = cms_state /\ processed_log' = processed_log)
        /\ (bpc = "idle" /\ AllLogged(batch_log)) =>
             (bpc' = "idle" /\ hdfs_storage' = hdfs_storage /\ batch_log' = batch_log)
      ]_vars

\* C6 case: both pipelines are idle with every event in both ledgers, and a
\* further event can no longer arrive.
C6_Witness ==
    /\ pc[1] = "idle" /\ bpc = "idle"
    /\ DOMAIN kafka_events = FileIds
    /\ AllLogged(processed_log) /\ AllLogged(batch_log)

\* The grid of a sketch object has depth rows of width columns.
ShapeMatches(s) ==
    /\ Len(s.sketch) = s.depth
    /\ \A i \in 1..Len(s.sketch) : Len(s.sketch[i]) = s.width

\* C9 (load dimension mismatch): loading a persisted grid whose shape is not
\* depth x width fails; a run never works on a sketch whose grid disagrees
\* with its width and depth.
C9_LoadRejectsMismatch ==
    \A r \in Runners : pc[r] /= "idle" => ShapeMatches(sketch[r])

WellFormed(rec) == rec.kind = "object" /\ {"event_id", "message_id"} \subseteq rec.has

WellFormedUnseen(log) ==
    SortedUnseen({ f \in DOMAIN kafka_events : WellFormed(kafka_events[f]) }, Range(log), 1)

\* C10 (malformed records): a cycle is never aborted by a record; it skips
\* the records that do not parse or lack a field, and processes every
\* well-formed unseen record.
C10_MalformedTolerated ==
    [][ /\ process_events(1) =>
             (exc'[1] = "none" /\ newly_processed'[1] = WellFormedUnseen(processed_log))
        /\ process_batch =>
             (bexc' = "none" /\ b_newly_processed' = WellFormedUnseen(batch_log))
      ]_vars

NoRepeat(log) == \A i, j \in 1..Len(log) : i /= j => log[i] /= log[j]

\* C14 (ledger at-most-once): under serialized runs of each pipeline, with
\* crashes at any point and retries, every event identifier is at most once
\* in the streaming ledger and at most once in the batch ledger.
C14_LedgerAtMostOnce == NoRepeat(processed_log) /\ NoRepeat(batch_log)

\* C14 case: a stream run was killed between save_sketch and its last log
\* line, the retry is over, and both ledgers name every event.
C14_Witness ==
    /\ streamRedo >= 1 /\ pc[1] = "idle" /\ bpc = "idle"
    /\ Len(processed_log) = MaxEvents /\ Len(batch_log) = MaxEvents
    /\ Range(processed_log) = FileIds /\ Range(batch_log) = FileIds

\* C16 (pipeline independence): a step of a StreamUpdater run leaves the
\* batch ledger, the batches and the raw events as they are, a step of a
\* BatchAggregationJob run leaves the sketch state, the streaming ledger and
\* the raw events as they are, and no step changes or removes a raw event.
C16_PipelineIndependence ==
    [][ /\ (pc' /= pc \/ cms_state' /= cms_state \/ processed_log' /= processed_log)
             => (batch_log' = batch_log /\ hdfs_storage' = hdfs_storage
                 /\ kafka_events' = kafka_events /\ batchVars' = batchVars)
        /\ (bpc' /= bpc \/ hdfs_storage' /= hdfs_storage \/ batch_log' /= batch_log)
             => (cms_state' = cms_state /\ processed_log' = processed_log
                 /\ kafka_events' = kafka_events /\ streamVars' = streamVars)
        /\ \A f \in DOMAIN kafka_events :
              f \in DOMAIN kafka_events' /\ kafka_events'[f] = kafka_events[f]
      ]_vars

\* C16 case: the batch pipeline lags the streaming one: both are idle, the
\* streaming ledger names two events, the batch ledger one of them.
C16_Witness ==
    /\ pc[1] = "idle" /\ bpc = "idle"
    /\ Len(processed_log) = 2 /\ Len(batch_log) = 1
    /\ cms_state /= << >> /\ hdfs_storage /= << >>

\* C17 (persistence round-trip): the state save_sketch writes, loaded with
\* the same width and depth, gives the grid that was saved, the same
\* estimate for every key, and the same cells incremented by a later add.
C17_RoundTrip ==
    [][ (pc[1] = "save_sketch" /\ pc'[1] = "log_processed_file") =>
          \A saved \in { sketch[1] }, reloaded \in { load_sketch(cms_state') } :
              /\ reloaded.sketch = saved.sketch
              /\ \A k \in Keys :
                    /\ estimate(reloaded, k).ret = estimate(saved, k).ret
                    /\ add(reloaded, k, 1).self.sketch = add(saved, k, 1).self.sketch
      ]_vars

\* C17 case: a sketch holding a count of two or more was saved.
C17_Witness ==
    /\ pc[1] = "log_processed_file" /\ cms_state /= << >>
    /\ \E k \in Keys : estimate(load_sketch(cms_state), k).ret[1] >= 2

\* The names a run has taken on or finds in the ledger.
Taken(log, newly) == Range(log) \cup Range(newly)

\* The grid of the state file is the grid of a sketch built from scratch
\* with one add(key, 1) per event of files that log names.
ExactGrid(state, files, log) ==
    LET bag == [event_id \in Keys |->
                   Cardinality({ f \in Range(log) \cap DOMAIN files :
                                   /\ files[f].kind = "object"
                                   /\ "event_id" \in files[f].has
                                   /\ files[f].event_id = event_id })]
    IN  load_sketch(state).sketch = BuildFromScratch(CMS_WIDTH, CMS_DEPTH, bag).sketch

\* C19 (exactly-once without crashes): after every crash-free serialized
\* run the persisted grid is the grid of a sketch built from scratch with
\* one add(key, 1) per event of the streaming ledger; a run that is not
\* ended by an exception takes on every well-formed raw event available at
\* its start that the ledger does not name, and every name it took on is in
\* the ledger when it ends.
C19_ExactlyOnce ==
    [][ /\ pc'[1] = "idle" => ExactGrid(cms_state', kafka_events', processed_log')
        /\ (process_events(1) /\ exc'[1] = "none") =>
              { f \in DOMAIN kafka_events : WellFormed(kafka_events[f]) }
                 \subseteq Taken(processed_log', newly_processed'[1])
        /\ pc[1] /= "idle" =>
              Taken(processed_log, newly_processed[1])
                 \subseteq Taken(processed_log', newly_processed'[1])
        /\ pc'[1] = "idle" => newly_processed'[1] = << >>
      ]_vars

\* C19 case: two runs are over, the second after a new arrival; both events
\* have the same key and the persisted estimate of it is exactly two.
C19_Witness ==
    /\ pc[1] = "idle" /\ processed_log = << 2, 1 >>
    /\ \E event_id \in Keys :
          /\ LedgerCount(processed_log, event_id) = 2
          /\ estimate(load_sketch(cms_state), event_id).ret = << 2 >>

\* Every event the streaming ledger names is reflected in the persisted
\* sketch: the persisted estimate of each key is at least the number of
\* ledger events with that key.
LedgerReflected ==
    \A event_id \in Keys :
        LET n == LedgerCount(processed_log, event_id)
        IN  n > 0 => /\ cms_state /= << >>
                     /\ estimate(load_sketch(cms_state), event_id).ret[1] >= n

Pos(order, x) == CHOOSE i \in 1..Len(order) : order[i] = x

Smaller(a, b) == IF a < b THEN a ELSE b

\* top is a ranking of the keys of candidates (a set) by the count est gives
\* them: the Smaller(k, number of candidates) first, in non-increasing order
\* of count, no omitted key with a larger count than a returned one, and
\* keys of equal count in the order rank gives the keys.
IsRanking(top, k, candidates, est(_), rank(_)) ==
    /\ Len(top) = Smaller(k, Cardinality(candidates))
    /\ \A i \in 1..Len(top) :
          /\ top[i].event_id \in candidates
          /\ top[i].count = est(top[i].event_id)
          /\ \A c \in candidates \ { top[j].event_id : j \in 1..Len(top) } :
                est(c) <= top[i].count
    /\ \A i, j \in 1..Len(top) :
          i < j => /\ top[i].event_id /= top[j].event_id
                   /\ top[i].count >= top[j].count
                   /\ top[i].count = top[j].count
                        => rank(top[i].event_id) < rank(top[j].event_id)

\* C11 (approximateTopK ranking): with a persisted sketch and a non-empty
\* candidate list, get_approximate_top_k(k) returns min(k, number of
\* candidates) pairs (key, estimate(key)) in non-increasing order of
\* estimate, no omitted candidate has a strictly larger estimate than a
\* returned one, and candidates of equal estimate come in their order in
\* the candidate list.
C11_ApproximateRanking ==
    (query.op = "approximate" /\ cms_state /= << >> /\ get_unique_event_ids /= {}) =>
        LET est(event_id)  == estimate(load_sketch(cms_state), event_id).ret[1]
            rank(event_id) == Pos(query.order, event_id)
        IN  /\ query.exc = "none"
            /\ Range(query.order) = get_unique_event_ids
            /\ IsRanking(query.top_k, query.k, get_unique_event_ids, est, rank)

\* C11 case: two candidates, k = 1, and the candidate returned is the second
\* of the candidate list, the first having the smaller estimate.
C11_Witness ==
    /\ query.op = "approximate" /\ query.k = 1 /\ Len(query.order) = 2
    /\ Len(query.top_k) = 1
    /\ query.top_k[1].event_id = query.order[2]
    /\ estimate(load_sketch(cms_state), query.order[1]).ret[1] < query.top_k[1].count

\* The keys of the stored batches, and the place of a key in the items of
\* the batch files read in the order filenames.
BatchKeys == { event_id \in Keys : total_counts(event_id) > 0 }

RECURSIVE ItemsInOrder(_)
ItemsInOrder(filenames) ==
    IF filenames = << >> THEN << >>
    ELSE hdfs_storage[Head(filenames)] \o ItemsInOrder(Tail(filenames))

FirstSeen(filenames, event_id) ==
    LET items == ItemsInOrder(filenames)
    IN  CHOOSE i \in 1..Len(items) :
            /\ items[i].event_id = event_id
            /\ \A j \in 1..(i - 1) : items[j].event_id /= event_id

\* C12 (exactTopK ranking): get_exact_top_k(k) sums, for every key, its
\* counts over all stored batch records and returns the min(k, number of
\* distinct keys) keys of greatest total in non-increasing order of total,
\* keys of equal total in first-seen order.
C12_ExactRanking ==
    (query.op = "exact" /\ hdfs_storage /= << >>) =>
        LET rank(event_id) == FirstSeen(query.order, event_id)
        IN  /\ query.exc = "none"
            /\ Range(query.order) = DOMAIN hdfs_storage
            /\ IsRanking(query.top_k, query.k, BatchKeys, total_counts, rank)

\* C12 case: two batch files hold the key that is returned first, its total
\* is the sum over both, and a second key with the same total follows it.
C12_Witness ==
    /\ query.op = "exact" /\ Len(query.order) = 2 /\ Len(query.top_k) = 2
    /\ SumItems(hdfs_storage[query.order[1]], query.top_k[1].event_id) > 0
    /\ SumItems(hdfs_storage[query.order[2]], query.top_k[1].event_id) > 0
    /\ query.top_k[1].count = query.top_k[2].count

\* C13 (MissingState): get_approximate_top_k returns an empty list, no
\* error, without a state file or without candidates, get_exact_top_k
\* returns an empty list, no error, without a batch record, and no file is
\* created or changed.
C13_MissingStateSoft ==
    [][ /\ ( /\ query'.op = "approximate"
             /\ (cms_state = << >> \/ get_unique_event_ids = {}) )
           => (query'.top_k = << >> /\ query'.exc = "none" /\ fileVars' = fileVars)
        /\ (query'.op = "exact" /\ hdfs_storage = << >>)
           => (query'.top_k = << >> /\ query'.exc = "none" /\ fileVars' = fileVars)
      ]_vars

\* C13 case: the approximate query answered [] with a state file and no
\* candidate (the sketch is saved, no ledger names an event yet).
C13_Witness ==
    /\ query.op = "approximate" /\ cms_state /= << >>
    /\ get_unique_event_ids = {}
    /\ query.top_k = << >>

\* C18 (reads are pure): the estimate calls of a query change no counter of
\* the sketch they are made on, and neither query changes the state file, a
\* ledger or a batch record.
C18_ReadsArePure ==
    [][ query'.op /= "none" =>
          /\ cms_state' = cms_state
          /\ processed_log' = processed_log /\ batch_log' = batch_log
          /\ hdfs_storage' = hdfs_storage
          /\ query'.sketch /= << >> => query'.sketch[1] = load_sketch(cms_state)
      ]_vars

\* C18 case: an approximate query that estimated two keys with positive
\* counts, while a batch is stored.
C18_Witness ==
    /\ query.op = "approximate" /\ Len(query.top_k) = 2
    /\ query.top_k[2].count >= 1
    /\ hdfs_storage /= << >>

(***************************************************************************)
(* Claims about the sketch                                                  *)
(***************************************************************************)

\* C1 (no-undercount): after any sequence of add calls with positive counts
\* on a sketch created empty, estimate(k) returns, for every key k, at least
\* the sum of the counts added for k.
C1_NoUndercount ==
    \A x \in Names, k \in Keys :
        LET e == estimate(sk[x], k)
        IN  e.exc = "none" /\ e.ret /= << >> /\ e.ret[1] >= added[x][k]

\* C1 case: a key was added, and hash collisions make the estimate of a key
\* strictly larger than its exact count.
C1_Witness ==
    \E x \in Names, k \in Keys, k2 \in Keys :
        /\ added[x][k] >= 1 /\ k2 /= k /\ added[x][k2] >= 1
        /\ estimate(sk[x], k).ret[1] > added[x][k]

\* C7 (merge linearity): for two sketches of identical width and depth built
\* from multisets A and B, after a.merge(b) every counter of a equals the
\* counter of a sketch built from scratch over A and B together, and so
\* estimate agrees for every key.
C7_MergeLinearity ==
    [][ \A x \in Names, y \in Names :
          ( /\ ret'.op = "merge" /\ ret'.self = x /\ ret'.arg = y
            /\ sk[x].width = sk[y].width /\ sk[x].depth = sk[y].depth )
          => LET scratch == BuildFromScratch(sk[x].width, sk[x].depth,
                                             BagUnion(added[x], added[y]))
             IN  /\ ret'.exc = "none"
                 /\ sk'[x].sketch = scratch.sketch
                 /\ \A k \in Keys : estimate(sk'[x], k) = estimate(scratch, k)
      ]_vars

\* C7 case: a successful merge of two non-empty sketches.
C7_Witness ==
    /\ ret.op = "merge" /\ ret.exc = "none"
    /\ Total(added[ret.arg]) >= 1
    /\ Total(added[ret.self]) > Total(added[ret.arg])

\* C8 (merge dimension mismatch): merge(other) fails with the dimension
\* error whenever the widths or the depths differ, and then no counter of
\* self or of other is changed.
C8_MergeMismatchRejected ==
    [][ \A x \in Names, y \in Names :
          ( /\ ret'.op = "merge" /\ ret'.self = x /\ ret'.arg = y
            /\ (sk[x].width /= sk[y].width \/ sk[x].depth /= sk[y].depth) )
          => (ret'.exc = "ValueError" /\ sk' = sk)
      ]_vars

\* C15 (counters non-negative and monotone): in every reachable state every
\* counter is >= 0, and no add call, whatever its count (also zero or
\* negative), lowers a counter.
C15_CountersMonotone ==
    [][ ret'.op = "add" =>
          \A x \in Names : \A i \in 1..Len(sk[x].sketch) : \A j \in 1..Len(sk[x].sketch[i]) :
              /\ sk'[x].sketch[i][j] >= 0
              /\ sk'[x].sketch[i][j] >= sk[x].sketch[i][j]
      ]_vars

\* C8 case: a rejected merge of two sketches that both hold counts.
C8_Witness ==
    /\ ret.op = "merge" /\ ret.exc = "ValueError"
    /\ Total(added[ret.self]) >= 1 /\ Total(added[ret.arg]) >= 1

=============================================================================
